---- MODULE Spec2Model ----
(***************************************************************************)
(* A model of src/src/utils.js (redux-tooltip): the placement of a tooltip *)
(* beside its origin element and the fallback between directions.          *)
(*                                                                         *)
(* JavaScript values are tagged records:                                   *)
(*   undefined  [t |-> "undefined"]                                        *)
(*   number     [t |-> "number", nan |-> BOOLEAN, v |-> Int]               *)
(*   string     [t |-> "string", s |-> sequence of one-character strings]  *)
(*   array      [t |-> "object", a |-> sequence of values]                 *)
(* and a plain object is a record of the properties the code reads, one it  *)
(* does not own holding undefined (the code never tells the two apart).    *)
(* Numbers are held in half pixels (Px(1) = 2), so that the code's         *)
(* "x * 0.5" is exact for the whole-pixel geometry the DOM reports here.   *)
(*                                                                         *)
(* A value that a function computes once and reads several times is bound  *)
(* as the element of a singleton set, The({ f(x) : x \in {e} }), which TLC  *)
(* evaluates once; a LET would be evaluated again at each use.             *)
(***************************************************************************)
EXTENDS Integers, Sequences, FiniteSets

VARIABLES window, documentElement, rects, call

vars == <<window, documentElement, rects, call>>

-----------------------------------------------------------------------------
(* Bounds of the model *)

MaxListLen == 3

MaxParts == 2

-----------------------------------------------------------------------------
(* JavaScript values *)

The(S) == CHOOSE x \in S : TRUE

UNDEFINED == [t |-> "undefined"]

NaN == [t |-> "number", nan |-> TRUE, v |-> 0]

Num(n) == [t |-> "number", nan |-> FALSE, v |-> n]

Px(n) == Num(2 * n)

Str(s) == [t |-> "string", s |-> s]

Arr(a) == [t |-> "object", a |-> a]

typeof(x) == IF "t" \in DOMAIN x THEN x.t ELSE "object"

IsNum(x) == typeof(x) = "number" /\ ~x.nan

Add(x, y) == IF IsNum(x) /\ IsNum(y) THEN Num(x.v + y.v) ELSE NaN

Sub(x, y) == IF IsNum(x) /\ IsNum(y) THEN Num(x.v - y.v) ELSE NaN

Half(x) == IF IsNum(x) THEN Num(x.v \div 2) ELSE NaN

Lt(x, y) == IsNum(x) /\ IsNum(y) /\ x.v < y.v

Max(x, y) == IF IsNum(x) /\ IsNum(y) THEN (IF x.v < y.v THEN y ELSE x) ELSE NaN

Min(x, y) == IF IsNum(x) /\ IsNum(y) THEN (IF y.v < x.v THEN y ELSE x) ELSE NaN

Truthy(x) == CASE typeof(x) = "number" -> ~x.nan /\ x.v # 0
               [] typeof(x) = "string" -> x.s # <<>>
               [] typeof(x) = "undefined" -> FALSE
               [] OTHER -> TRUE

Or(x, y) == IF Truthy(x) THEN x ELSE y

Get(obj, prop) == obj[prop]

Set(obj, prop, val) == [obj EXCEPT ![prop] = val]

(* {} as a rectangle *)
Empty == [top |-> UNDEFINED, left |-> UNDEFINED, right |-> UNDEFINED,
          bottom |-> UNDEFINED, width |-> UNDEFINED, height |-> UNDEFINED]

-----------------------------------------------------------------------------
(* Strings *)

TOP == <<"t", "o", "p">>

RIGHT == <<"r", "i", "g", "h", "t">>

BOTTOM == <<"b", "o", "t", "t", "o", "m">>

LEFT == <<"l", "e", "f", "t">>

DIAGONAL == <<"d", "i", "a", "g", "o", "n", "a", "l">>

PX == <<"p", "x">>

Directions == {TOP, RIGHT, BOTTOM, LEFT}

DigitChars == <<"0", "1", "2", "3", "4", "5", "6", "7", "8", "9">>

IsDigit(c) == \E i \in 1..10 : DigitChars[i] = c

DigitVal(c) == (CHOOSE i \in 1..10 : DigitChars[i] = c) - 1

RECURSIVE Digits(_)
Digits(k) == IF k < 10 THEN <<DigitChars[k + 1]>>
             ELSE Digits(k \div 10) \o <<DigitChars[(k % 10) + 1]>>

NumberToString(x) ==
  IF x.nan THEN <<"N", "a", "N">>
  ELSE LET a == IF x.v < 0 THEN 0 - x.v ELSE x.v
       IN  (IF x.v < 0 THEN <<"-">> ELSE <<>>)
           \o Digits(a \div 2)
           \o (IF a % 2 = 1 THEN <<".", "5">> ELSE <<>>)

RECURSIVE DigitRun(_)
DigitRun(s) == IF s # <<>> /\ IsDigit(Head(s)) THEN <<Head(s)>> \o DigitRun(Tail(s)) ELSE <<>>

RECURSIVE DigitsValue(_)
DigitsValue(ds) == IF ds = <<>> THEN 0
                   ELSE 10 * DigitsValue(SubSeq(ds, 1, Len(ds) - 1)) + DigitVal(ds[Len(ds)])

RECURSIVE TrimStart(_)
TrimStart(s) == IF s # <<>> /\ Head(s) = " " THEN TrimStart(Tail(s)) ELSE s

RECURSIVE TrimEnd(_)
TrimEnd(s) == IF s # <<>> /\ s[Len(s)] = " " THEN TrimEnd(SubSeq(s, 1, Len(s) - 1)) ELSE s

trim(s) == TrimEnd(TrimStart(s))

Drop(s, n) == SubSeq(s, n + 1, Len(s))

(* The number a string starts with, after its sign: digits, then an     *)
(* optional fraction, which the half-pixel grid keeps as .0 or .5.       *)
Unsigned(int, rest) ==
  LET frac == IF rest # <<>> /\ Head(rest) = "." THEN DigitRun(Tail(rest)) ELSE <<>>
      half == IF frac # <<>> /\ DigitVal(frac[1]) >= 5 THEN 1 ELSE 0
  IN  IF int = <<>> /\ frac = <<>> THEN NaN ELSE Num(2 * DigitsValue(int) + half)

Signed(neg, s1) ==
  The({IF IsNum(u) /\ neg THEN Num(0 - u.v) ELSE u :
         u \in {Unsigned(int, Drop(s1, Len(int))) : int \in {DigitRun(s1)}}})

parseFloat(s) ==
  The({IF s0 # <<>> /\ Head(s0) \in {"-", "+"} THEN Signed(Head(s0) = "-", Tail(s0))
       ELSE Signed(FALSE, s0) :
         s0 \in {TrimStart(s)}})

StartsWith(s, pat) == Len(pat) <= Len(s) /\ SubSeq(s, 1, Len(pat)) = pat

RECURSIVE replace(_, _, _)
replace(s, pat, by) ==
  IF StartsWith(s, pat) THEN by \o Drop(s, Len(pat))
  ELSE IF s = <<>> THEN <<>>
  ELSE <<Head(s)>> \o replace(Tail(s), pat, by)

RECURSIVE split(_, _)
split(s, sep) ==
  IF \A i \in 1..Len(s) : s[i] # sep THEN <<s>>
  ELSE LET i == CHOOSE j \in 1..Len(s) : s[j] = sep /\ \A k \in 1..(j - 1) : s[k] # sep
       IN  <<SubSeq(s, 1, i - 1)>> \o split(Drop(s, i), sep)

RECURSIVE join(_, _)
join(a, sep) ==
  IF a = <<>> THEN <<>>
  ELSE IF Len(a) = 1 THEN a[1]
  ELSE a[1] \o sep \o join(Tail(a), sep)

Template(x, suffix) == Str(NumberToString(x) \o suffix)

StringOf(x) == CASE x.t = "string" -> x.s
                 [] x.t = "number" -> NumberToString(x)
                 [] x.t = "undefined" -> <<"u", "n", "d", "e", "f", "i", "n", "e", "d">>
                 [] OTHER -> join([i \in 1..Len(x.a) |-> IF x.a[i].t = "string" THEN x.a[i].s ELSE <<>>], <<",">>)

-----------------------------------------------------------------------------
(* src/src/utils.js *)

NULL == "null"

gap == 12

position(el) ==
  LET pos     == rects[el]
      winTop  == Sub(Or(window.pageYOffset, documentElement.scrollTop), documentElement.clientTop)
      winLeft == Sub(Or(window.pageXOffset, documentElement.scrollLeft), documentElement.clientLeft)
  IN  [top    |-> Add(pos.top, winTop),
       left   |-> Add(pos.left, winLeft),
       right  |-> Add(pos.right, winLeft),
       bottom |-> Add(pos.bottom, winTop),
       width  |-> pos.width,
       height |-> pos.height]

(* placementOf with "pos.top + gap" for 'bottom': the anchor's height forgotten *)
placementNoHeight(place, tip, pos) ==
  LET offset0 == [Empty EXCEPT !.width = tip.width, !.height = tip.height]
      offset1 == CASE place \in {Str(TOP), Str(BOTTOM)} ->
                        Set(offset0, "left",
                            Template(Sub(Add(pos.left, Half(pos.width)), Half(tip.width)), PX))
                   [] place \in {Str(LEFT), Str(RIGHT)} ->
                        Set(offset0, "top",
                            Template(Sub(Add(pos.top, Half(pos.height)), Half(tip.height)), PX))
                   [] OTHER -> offset0
  IN  CASE place = Str(TOP) ->
             Set(offset1, "top", Template(Sub(Sub(pos.top, tip.height), Px(gap)), PX))
        [] place = Str(RIGHT) ->
             Set(offset1, "left", Template(Add(pos.right, Px(gap)), PX))
        [] place = Str(BOTTOM) ->
             Set(offset1, "top", Template(Add(pos.top, Px(gap)), PX))
        [] place = Str(LEFT) ->
             Set(offset1, "left", Template(Sub(Sub(pos.left, tip.width), Px(gap)), PX))
        [] OTHER -> offset1

placementOf(place, tip, pos) ==
  LET offset0 == [Empty EXCEPT !.width = tip.width, !.height = tip.height]
      offset1 == CASE place \in {Str(TOP), Str(BOTTOM)} ->
                        Set(offset0, "left",
                            Template(Sub(Add(pos.left, Half(pos.width)), Half(tip.width)), PX))
                   [] place \in {Str(LEFT), Str(RIGHT)} ->
                        Set(offset0, "top",
                            Template(Sub(Add(pos.top, Half(pos.height)), Half(tip.height)), PX))
                   [] OTHER -> offset0
  IN  CASE place = Str(TOP) ->
             Set(offset1, "top", Template(Sub(Sub(pos.top, tip.height), Px(gap)), PX))
        [] place = Str(RIGHT) ->
             Set(offset1, "left", Template(Add(pos.right, Px(gap)), PX))
        [] place = Str(BOTTOM) ->
             Set(offset1, "top", Template(Add(Add(pos.top, pos.height), Px(gap)), PX))
        [] place = Str(LEFT) ->
             Set(offset1, "left", Template(Sub(Sub(pos.left, tip.width), Px(gap)), PX))
        [] OTHER -> offset1

placement(place, tooltip, origin) ==
  The({placementOf(place, tip, pos) : tip \in {position(tooltip)}, pos \in {position(origin)}})

Return(value) == [kind |-> "return", value |-> value]

Throw(error) == [kind |-> "throw", error |-> error]

UnknownDirection(dir) == [name |-> "Error", message |-> "Unknown direction", dir |-> StringOf(dir)]

(* opposite with a default in place of the throw *)
oppositeDefault(dir) ==
  LET place == IF typeof(dir) = "object" /\ 0 < Len(dir.a) THEN dir.a[1] ELSE dir
  IN  CASE place = Str(TOP)    -> Return(Str(BOTTOM))
        [] place = Str(BOTTOM) -> Return(Str(TOP))
        [] place = Str(RIGHT)  -> Return(Str(LEFT))
        [] place = Str(LEFT)   -> Return(Str(RIGHT))
        [] OTHER               -> Return(Str(TOP))

(* opposite reading the last element of a list, not the first *)
oppositeOfLast(dir) ==
  LET place == IF typeof(dir) = "object" /\ 0 < Len(dir.a) THEN dir.a[Len(dir.a)] ELSE dir
  IN  CASE place = Str(TOP)    -> Return(Str(BOTTOM))
        [] place = Str(BOTTOM) -> Return(Str(TOP))
        [] place = Str(RIGHT)  -> Return(Str(LEFT))
        [] place = Str(LEFT)   -> Return(Str(RIGHT))
        [] OTHER               -> Throw(UnknownDirection(dir))

opposite(dir) ==
  LET place == IF typeof(dir) = "object" /\ 0 < Len(dir.a) THEN dir.a[1] ELSE dir
  IN  CASE place = Str(TOP)    -> Return(Str(BOTTOM))
        [] place = Str(BOTTOM) -> Return(Str(TOP))
        [] place = Str(RIGHT)  -> Return(Str(LEFT))
        [] place = Str(LEFT)   -> Return(Str(RIGHT))
        [] OTHER               -> Throw(UnknownDirection(dir))

intersection(area1, area2) ==
  LET top    == Max(Get(area1, "top"), Get(area2, "top"))
      right  == Min(Add(Get(area1, "left"), Get(area1, "width")),
                    Add(Get(area2, "left"), Get(area2, "width")))
      bottom == Min(Add(Get(area1, "top"), Get(area1, "height")),
                    Add(Get(area2, "top"), Get(area2, "height")))
      left   == Max(Get(area1, "left"), Get(area2, "left"))
  IN  [top |-> top, right |-> right, bottom |-> bottom, left |-> left,
       height |-> Sub(bottom, top), width |-> Sub(right, left)]

defaultArea == [Empty EXCEPT !.height = window.innerHeight, !.width = window.innerWidth]

STRIP_FOR == <<"top", "left", "right", "bottom", "width", "height">>

stripValue(val) ==
  IF typeof(val) = "string" THEN parseFloat(replace(val.s, PX, <<>>)) ELSE val

(* obj: the argument after the call (data is a copy, { ...obj }); data: the *)
(* result, each property of STRIP_FOR that holds a string parsed in turn.   *)
RECURSIVE stripProps(_, _)
stripProps(data, i) ==
  IF i > Len(STRIP_FOR) THEN data
  ELSE The({stripProps(d, i + 1) : d \in {[data EXCEPT ![STRIP_FOR[i]] = stripValue(@)]}})

strip(obj) == [obj |-> obj, data |-> stripProps(obj, 1)]

amendTop(data) == IF typeof(Get(data, "top")) # "number" THEN Set(data, "top", Num(0)) ELSE data

amendLeft(data) == IF typeof(Get(data, "left")) # "number" THEN Set(data, "left", Num(0)) ELSE data

(* amendRight deriving right whenever width is a number, a given right lost *)
amendRightAlways(data) ==
  IF typeof(Get(data, "width")) = "number"
  THEN Set(data, "right", Add(data.left, data.width)) ELSE data

amendRight(data) ==
  IF typeof(Get(data, "right")) # "number" /\ typeof(Get(data, "width")) = "number"
  THEN Set(data, "right", Add(data.left, data.width)) ELSE data

amendBottom(data) ==
  IF typeof(Get(data, "bottom")) # "number" /\ typeof(Get(data, "height")) = "number"
  THEN Set(data, "bottom", Add(data.top, data.height)) ELSE data

(* area: the argument after the call; data: the result *)
amend(area) ==
  The({[area |-> s.obj,
        data |-> The({amendBottom(d3) : d3 \in {amendRight(d2) : d2 \in {amendLeft(d1) :
                        d1 \in {amendTop(s.data)}}}})] :
         s \in {strip(area)}})

Le(x, y) == IsNum(x) /\ IsNum(y) /\ x.v <= y.v

(* overDirsIn with <= for <: an edge that is touched is reported *)
overDirsInclusive(tip, area) ==
  (IF Le(Get(tip, "top"), Get(area, "top")) THEN <<Str(TOP)>> ELSE <<>>)
  \o (IF Le(Get(area, "right"), Get(tip, "right")) THEN <<Str(RIGHT)>> ELSE <<>>)
  \o (IF Le(Get(area, "bottom"), Get(tip, "bottom")) THEN <<Str(BOTTOM)>> ELSE <<>>)
  \o (IF Le(Get(tip, "left"), Get(area, "left")) THEN <<Str(LEFT)>> ELSE <<>>)

overDirsIn(tip, area) ==
  (IF Lt(Get(tip, "top"), Get(area, "top")) THEN <<Str(TOP)>> ELSE <<>>)
  \o (IF Lt(Get(area, "right"), Get(tip, "right")) THEN <<Str(RIGHT)>> ELSE <<>>)
  \o (IF Lt(Get(area, "bottom"), Get(tip, "bottom")) THEN <<Str(BOTTOM)>> ELSE <<>>)
  \o (IF Lt(Get(tip, "left"), Get(area, "left")) THEN <<Str(LEFT)>> ELSE <<>>)

overDirs(tip0, el) ==
  The({overDirsIn(tip, area) :
         tip  \in {amend(tip0).data},
         area \in {IF el # NULL THEN intersection(area0, position(el)) ELSE area0 :
                     area0 \in {amend(defaultArea).data}}})

length(x) == IF typeof(x) = "string" THEN Len(x.s) ELSE Len(x.a)

(* [ ...x ]: the elements of an array, the characters of a string *)
spread(x) == IF typeof(x) = "string" THEN [i \in 1..Len(x.s) |-> Str(<<x.s[i]>>)] ELSE x.a

(* tryLoop without the early return: a fit is remembered and the loop goes on *)
RECURSIVE tryLoopNoReturn(_, _, _, _, _)
tryLoopNoReturn(tries, first, evaluated, tooltip, origin) ==
  IF ~(0 < Len(tries)) THEN [ret |-> first, evaluated |-> evaluated]
  ELSE The({tryLoopNoReturn(Tail(tries),
                            IF typeof(first) = "undefined" \/ Len(overDirs(props, NULL)) = 0
                            THEN [offset |-> props, place |-> current] ELSE first,
                            Append(evaluated, current), tooltip, origin) :
              current \in {Head(tries)},
              props   \in {placement(Head(tries), tooltip, origin)}})

(* tryLoop without the test of first: first is the last candidate tried *)
RECURSIVE tryLoopLast(_, _, _, _, _)
tryLoopLast(tries, first, evaluated, tooltip, origin) ==
  IF ~(0 < Len(tries)) THEN [ret |-> first, evaluated |-> evaluated]
  ELSE The({IF Len(overDirs(props, NULL)) = 0
            THEN [ret |-> [offset |-> props, place |-> current],
                  evaluated |-> Append(evaluated, current)]
            ELSE tryLoopLast(Tail(tries), [offset |-> props, place |-> current],
                             Append(evaluated, current), tooltip, origin) :
              current \in {Head(tries)},
              props   \in {placement(Head(tries), tooltip, origin)}})

(* The while loop of adjust: ret is what it returns, evaluated the candidates *)
(* placement was called for, in order.                                       *)
RECURSIVE tryLoop(_, _, _, _, _)
tryLoop(tries, first, evaluated, tooltip, origin) ==
  IF ~(0 < Len(tries)) THEN [ret |-> first, evaluated |-> evaluated]
  ELSE The({IF Len(overDirs(props, NULL)) = 0
            THEN [ret |-> [offset |-> props, place |-> current],
                  evaluated |-> Append(evaluated, current)]
            ELSE tryLoop(Tail(tries),
                         IF typeof(first) = "undefined"
                         THEN [offset |-> props, place |-> current] ELSE first,
                         Append(evaluated, current), tooltip, origin) :
              current \in {Head(tries)},
              props   \in {placement(Head(tries), tooltip, origin)}})

(* candidates without lines 188-190: a place that is alone stays alone *)
candidatesAlone(place0, auto) ==
  [kind  |-> "return",
   place |-> IF auto /\ typeof(place0) = "string"
             THEN Arr([i \in 1..Len(split(place0.s, ",")) |-> Str(trim(split(place0.s, ",")[i]))])
             ELSE place0]

(* The candidates: place split and trimmed (lines 185-187), its opposite  *)
(* pushed when it is alone (188-190). own: place is still the caller's    *)
(* object, which a push then changes.                                     *)
candidates(place0, auto) ==
  The({IF length(place1) # 1 THEN [kind |-> "return", place |-> place1]
       ELSE The({IF opp.kind = "throw" THEN opp
                 ELSE IF typeof(place1) = "string"
                 THEN Throw([name |-> "TypeError", message |-> "place.push is not a function",
                             dir |-> place1.s])
                 ELSE [kind |-> "return", place |-> Arr(Append(place1.a, opp.value))] :
                   opp \in {opposite(place1)}}) :
         place1 \in {IF auto /\ typeof(place0) = "string"
                     THEN Arr([i \in 1..Len(split(place0.s, ",")) |->
                                 Str(trim(split(place0.s, ",")[i]))])
                     ELSE place0}})

(* kind, value, error: how the call ends; place: the caller's argument after *)
(* the call; tries: the candidates as copied at line 193.                    *)
adjust(place0, tooltip, origin, auto) ==
  The({IF c.kind = "throw"
       THEN [kind |-> "throw", error |-> c.error, place |-> place0,
             tries |-> <<>>, evaluated |-> <<>>]
       ELSE The({[kind |-> "return", value |-> loop.ret,
                  place |-> IF auto /\ typeof(place0) = "string" THEN place0 ELSE c.place,
                  tries |-> spread(c.place), evaluated |-> loop.evaluated] :
                   loop \in {tryLoop(spread(c.place), UNDEFINED, <<>>, tooltip, origin)}}) :
         c \in {candidates(place0, auto)}})

resolve(obj) ==
  LET names == IF Truthy(Get(obj, "payload")) /\ Truthy(Get(obj.payload, "name")) THEN obj.payload.name
               ELSE IF Truthy(Get(obj, "name")) THEN obj.name
               ELSE Arr(<<Str(<<"d", "e", "f", "a", "u", "l", "t">>)>>)
  IN  IF typeof(names) = "string" THEN Arr(<<names>>) ELSE names

-----------------------------------------------------------------------------
(* The page: the viewport, the scroll offsets and the two elements' boxes *)

Viewports == {<<1000, 1000>>, <<60, 40>>}

(* Document places <<top, left>> of the origin element *)
OriginPlaces == {<<0, 0>>, <<100, 100>>, <<970, 940>>}

OriginSize == <<50, 20>>

TooltipSizes == {<<30, 10>>, <<120, 10>>}

(* Scroll offsets <<left, top>> of the page *)
ScrollOffsets == {<<0, 0>>, <<10, 10>>}

(* getBoundingClientRect of a box at document place (top, left), the page *)
(* scrolled by (sx, sy): viewport-relative, right = left + width.         *)
DOMRect(top, left, size, sx, sy) ==
  [top    |-> Px(top - sy),
   left   |-> Px(left - sx),
   right  |-> Px(left - sx + size[1]),
   bottom |-> Px(top - sy + size[2]),
   width  |-> Px(size[1]),
   height |-> Px(size[2])]

Page(vp, sx, sy, top, left, tsize) ==
  /\ window = [innerWidth |-> Px(vp[1]), innerHeight |-> Px(vp[2]),
               pageXOffset |-> Px(sx), pageYOffset |-> Px(sy)]
  /\ documentElement = [scrollTop |-> Px(sy), clientTop |-> Px(0),
                        scrollLeft |-> Px(sx), clientLeft |-> Px(0)]
  /\ rects = [tooltip |-> DOMRect(0, 0, tsize, sx, sy),
              origin  |-> DOMRect(top, left, OriginSize, sx, sy)]

Idle == [op |-> "idle"]

Init ==
  /\ Page(<<1000, 1000>>, 0, 0, 100, 100, <<30, 10>>)
  /\ call = Idle

Resize ==
  /\ call = Idle
  /\ \E vp \in Viewports :
       window' = [window EXCEPT !.innerWidth = Px(vp[1]), !.innerHeight = Px(vp[2])]
  /\ UNCHANGED <<documentElement, rects, call>>

ShiftRect(r, dx, dy) ==
  [r EXCEPT !.top = Add(r.top, dy), !.bottom = Add(r.bottom, dy),
            !.left = Add(r.left, dx), !.right = Add(r.right, dx)]

Scroll ==
  /\ call = Idle
  /\ \E to \in ScrollOffsets :
       /\ window' = [window EXCEPT !.pageXOffset = Px(to[1]), !.pageYOffset = Px(to[2])]
       /\ documentElement' = [documentElement EXCEPT !.scrollLeft = Px(to[1]), !.scrollTop = Px(to[2])]
       /\ rects' = [el \in DOMAIN rects |->
                      ShiftRect(rects[el], Sub(window.pageXOffset, Px(to[1])),
                                Sub(window.pageYOffset, Px(to[2])))]
  /\ UNCHANGED call

Layout ==
  /\ call = Idle
  /\ \E at \in OriginPlaces, tsize \in TooltipSizes :
       rects' = [tooltip |-> DOMRect(0, 0, tsize, window.pageXOffset.v \div 2, window.pageYOffset.v \div 2),
                 origin  |-> DOMRect(at[1], at[2], OriginSize, window.pageXOffset.v \div 2, window.pageYOffset.v \div 2)]
  /\ UNCHANGED <<window, documentElement, call>>

-----------------------------------------------------------------------------
(* The calls a component makes, and their arguments *)

Seqs(S, n) == UNION {[1..k -> S] : k \in 0..n}

StrArray(l) == Arr([i \in 1..Len(l) |-> Str(l[i])])

ArrayInputs == {StrArray(l) : l \in Seqs(Directions \cup {DIAGONAL}, MaxListLen)}

StringInputs ==
  {Str(join(l, sep)) : l \in Seqs(Directions \cup {DIAGONAL, <<>>}, MaxParts) \ {<<>>},
                       sep \in {<<",">>, <<",", " ">>}}

PlaceInputs == ArrayInputs \cup StringInputs

OppositeInputs == ArrayInputs \cup {Str(d) : d \in Directions \cup {DIAGONAL, <<>>}}

Elements == {"tooltip", "origin"}

Forms(n) == {UNDEFINED, Px(n), Template(Px(n), PX)}

(* Partial rectangles: each property absent, a number or a pixel string *)
AreaInputs ==
  {[top |-> t, left |-> l, width |-> w, height |-> h, right |-> r, bottom |-> b] :
     t \in {UNDEFINED, Px(2)}, l \in Forms(3), w \in Forms(5), h \in {UNDEFINED, Px(7)},
     r \in Forms(11), b \in {UNDEFINED, Px(13)}}

StripInputs == {a \in AreaInputs : a.right = UNDEFINED /\ a.bottom = UNDEFINED}

TipInputs ==
  {[Empty EXCEPT !.top = f[1], !.left = f[2], !.width = Px(size[1]), !.height = Px(size[2])] :
     f \in {<<Px(t), Px(l)>> : t \in {-5, 0, 30, 990}, l \in {-5, 0, 950}}
           \cup {<<Template(Px(t), PX), Template(Px(l), PX)>> : t \in {-5, 0, 30, 990}, l \in {-5, 0, 950}},
     size \in {<<50, 10>>, <<1200, 1100>>}}

ResolveInputs ==
  {[payload |-> UNDEFINED, name |-> Str(<<"x">>)],
   [payload |-> [name |-> StrArray(<<<<"a">>, <<"b">>>>)], name |-> UNDEFINED],
   [payload |-> [name |-> Str(<<"y">>)], name |-> Str(<<"x">>)],
   [payload |-> [name |-> UNDEFINED], name |-> UNDEFINED],
   [payload |-> UNDEFINED, name |-> UNDEFINED]}

Unchanged == UNCHANGED <<window, documentElement, rects>>

CallPosition ==
  /\ call = Idle
  /\ \E el \in Elements :
       call' = [op |-> "position", el |-> el, out |-> position(el)]
  /\ Unchanged

CallPlacement ==
  /\ call = Idle
  /\ \E d \in Directions \cup {DIAGONAL, <<>>} :
       call' = [op |-> "placement", place |-> Str(d), out |-> placement(Str(d), "tooltip", "origin")]
  /\ Unchanged

CallOpposite ==
  /\ call = Idle
  /\ \E dir \in OppositeInputs :
       call' = [op |-> "opposite", dir |-> dir, out |-> opposite(dir)]
  /\ Unchanged

CallIntersection ==
  /\ call = Idle
  /\ \E el1 \in Elements, el2 \in Elements :
       call' = [op |-> "intersection", area1 |-> position(el1), area2 |-> position(el2),
                out |-> intersection(position(el1), position(el2))]
  /\ Unchanged

CallStrip ==
  /\ call = Idle
  /\ \E obj \in StripInputs :
       call' = [op |-> "strip", obj |-> obj, out |-> strip(obj)]
  /\ Unchanged

CallAmend ==
  /\ call = Idle
  /\ \E area \in AreaInputs :
       call' = [op |-> "amend", area |-> area, out |-> amend(area)]
  /\ Unchanged

CallOverDirs ==
  /\ call = Idle
  /\ \E tip \in TipInputs, el \in {NULL, "origin"} :
       call' = [op |-> "overDirs", tip |-> tip, el |-> el, out |-> overDirs(tip, el)]
  /\ Unchanged

CallAdjust ==
  /\ call = Idle
  /\ \E place \in PlaceInputs, auto \in BOOLEAN :
       call' = [op |-> "adjust", place |-> place, auto |-> auto,
                out |-> adjust(place, "tooltip", "origin", auto)]
  /\ Unchanged

CallResolve ==
  /\ call = Idle
  /\ \E obj \in ResolveInputs :
       call' = [op |-> "resolve", obj |-> obj, out |-> resolve(obj)]
  /\ Unchanged

(* Single-threaded: the call in progress runs to its end and returns *)
Done ==
  /\ call # Idle
  /\ call' = Idle
  /\ Unchanged

Next ==
  \/ Resize
  \/ Scroll
  \/ Layout
  \/ CallPosition
  \/ CallPlacement
  \/ CallOpposite
  \/ CallIntersection
  \/ CallStrip
  \/ CallAmend
  \/ CallOverDirs
  \/ CallAdjust
  \/ CallResolve
  \/ Done

Spec == Init /\ [][Next]_vars

-----------------------------------------------------------------------------
(* The claims *)

Tooltip == "tooltip"

Origin == "origin"

Adjusted == call.op = "adjust" /\ call.out.kind = "return"

(* The placement of candidate c has no overflow edge against the viewport *)
Fits(c) == overDirs(placement(c, Tooltip, Origin), NULL) = <<>>

Result(c) == [offset |-> placement(c, Tooltip, Origin), place |-> c]

(* The index of the first candidate from i on that fits, 0 when none does *)
RECURSIVE FirstFit(_, _)
FirstFit(tries, i) ==
  IF i > Len(tries) THEN 0
  ELSE IF Fits(tries[i]) THEN i
  ELSE FirstFit(tries, i + 1)

(* C1: when some candidate of the list adjust tries fits the viewport, adjust *)
(* returns the place and the placement of the earliest such candidate; every  *)
(* candidate before it overflowed, and no candidate after it is evaluated.    *)
C1_EarliestFitReturned ==
  Adjusted =>
    \A c \in {FirstFit(call.out.tries, 1)} :
      c # 0 =>
        /\ call.out.value = Result(call.out.tries[c])
        /\ call.out.evaluated = SubSeq(call.out.tries, 1, c)

C1_Witness ==
  /\ Adjusted
  /\ Len(call.out.tries) = 3
  /\ call.out.value.place = call.out.tries[2]
  /\ Len(call.out.evaluated) = 2
  /\ ~Fits(call.out.tries[1])
  /\ Fits(call.out.tries[2])
  /\ Fits(call.out.tries[3])

TopLeft == Str(<<"t", "o", "p", ",", "l", "e", "f", "t">>)

(* C2: when every candidate of the list overflows, adjust returns the result *)
(* of the first candidate of the list, never the last one tried nor a         *)
(* direction outside the list; adjust('top,left') with both overflowing       *)
(* returns place 'top'.                                                       *)
C2_AllOverflowReturnsFirst ==
  /\ (Adjusted /\ call.out.tries # <<>> /\ \A i \in 1..Len(call.out.tries) : ~Fits(call.out.tries[i])) =>
       /\ call.out.value = Result(call.out.tries[1])
       /\ call.out.evaluated = call.out.tries
  /\ (Adjusted /\ call.place = TopLeft /\ call.auto /\ ~Fits(Str(TOP)) /\ ~Fits(Str(LEFT))) =>
       call.out.value.place = Str(TOP)

C2_Witness ==
  /\ Adjusted
  /\ call.place = TopLeft
  /\ call.auto
  /\ call.out.value.place = Str(TOP)
  /\ call.out.evaluated = <<Str(TOP), Str(LEFT)>>
  /\ ~Fits(Str(TOP))
  /\ ~Fits(Str(LEFT))

OppositeOf(d) == CASE d = TOP -> BOTTOM [] d = BOTTOM -> TOP [] d = RIGHT -> LEFT [] d = LEFT -> RIGHT

GivenAlone(d) ==
  /\ call.op = "adjust"
  /\ \/ call.place = Arr(<<Str(d)>>)
     \/ call.auto /\ typeof(call.place) = "string" /\ split(call.place.s, ",") = <<call.place.s>>
                  /\ trim(call.place.s) = d

(* The list a call is given: the array, or with auto the parts of the string *)
GivenList ==
  IF typeof(call.place) = "string"
  THEN [i \in 1..Len(split(call.place.s, ",")) |-> Str(trim(split(call.place.s, ",")[i]))]
  ELSE call.place.a

(* C3: a direction d given alone (the string d with auto, or the list [d]) is *)
(* tried as [d, opposite(d)], in that order: when d overflows and its         *)
(* opposite does not, adjust returns the opposite's place and placement. A    *)
(* list of two or more directions is tried as it is.                          *)
C3_SingleGetsOpposite ==
  /\ \A d \in Directions :
       GivenAlone(d) =>
         /\ call.out.kind = "return"
         /\ call.out.tries = <<Str(d), Str(OppositeOf(d))>>
         /\ (~Fits(Str(d)) /\ Fits(Str(OppositeOf(d)))) =>
              call.out.value = Result(Str(OppositeOf(d)))
  /\ (call.op = "adjust" /\ (call.auto \/ typeof(call.place) = "object") /\ Len(GivenList) >= 2) =>
       /\ call.out.kind = "return"
       /\ call.out.tries = GivenList

C3_Witness ==
  /\ GivenAlone(TOP)
  /\ typeof(call.place) = "string"
  /\ ~Fits(Str(TOP))
  /\ Fits(Str(BOTTOM))
  /\ call.out.value = Result(Str(BOTTOM))

(* C4: the place of every result adjust returns is one of the four directions *)
C4_PlaceIsDirection ==
  (Adjusted /\ call.out.value # UNDEFINED) =>
    \E d \in Directions : call.out.value.place = Str(d)

IsDirection(x) == \E d \in Directions : x = Str(d)

AcceptedByOpposite(dir) ==
  \/ IsDirection(dir)
  \/ typeof(dir) = "object" /\ Len(dir.a) > 0 /\ IsDirection(dir.a[1])

(* The text a value has inside an error message *)
TextOf(dir) ==
  IF typeof(dir) = "string" THEN dir.s
  ELSE join([i \in 1..Len(dir.a) |-> dir.a[i].s], <<",">>)

SingleUnrecognized ==
  /\ call.op = "adjust"
  /\ \/ typeof(call.place) = "object" /\ Len(call.place.a) = 1 /\ ~IsDirection(call.place.a[1])
     \/ call.auto /\ typeof(call.place) = "string" /\ Len(GivenList) = 1 /\ ~IsDirection(GivenList[1])

(* C5: opposite fails, with an error carrying the offending value and without *)
(* a direction, for every input that is neither a direction nor a non-empty    *)
(* list whose first element is a direction; adjust called with one            *)
(* unrecognized candidate ends with that error and returns no result.         *)
C5_OppositeFails ==
  /\ (call.op = "opposite" /\ ~AcceptedByOpposite(call.dir)) =>
       /\ call.out.kind = "throw"
       /\ call.out.error.name = "Error"
       /\ call.out.error.dir = TextOf(call.dir)
  /\ SingleUnrecognized =>
       /\ call.out.kind = "throw"
       /\ call.out.error.name = "Error"
       /\ call.out.error.dir = join([i \in 1..Len(GivenList) |-> GivenList[i].s], <<",">>)
       /\ "value" \notin DOMAIN call.out

C5_Witness ==
  /\ SingleUnrecognized
  /\ call.place = Str(DIAGONAL)
  /\ call.out.kind = "throw"
  /\ call.out.error.dir = DIAGONAL

(* C6: opposite is an involution on the four directions, top with bottom and *)
(* right with left, and a non-empty list has the opposite of its first        *)
(* element whatever follows it.                                               *)
C6_OppositeInvolution ==
  /\ (call.op = "opposite" /\ IsDirection(call.dir)) =>
       /\ call.out = Return(Str(OppositeOf(call.dir.s)))
       /\ opposite(call.out.value) = Return(call.dir)
  /\ (call.op = "opposite" /\ typeof(call.dir) = "object" /\ Len(call.dir.a) > 0) =>
       /\ call.out.kind = opposite(call.dir.a[1]).kind
       /\ call.out.kind = "return" => call.out = opposite(call.dir.a[1])

C6_Witness ==
  /\ call.op = "opposite"
  /\ call.dir = Arr(<<Str(RIGHT), Str(TOP), Str(DIAGONAL)>>)
  /\ call.out = Return(Str(LEFT))

Edges == <<Str(TOP), Str(RIGHT), Str(BOTTOM), Str(LEFT)>>

(* The amended rectangle of the tip of an overDirs call, in half pixels *)
TipEdge(prop) == amend(call.tip).data[prop].v

Violated(edge) ==
  CASE edge = Str(TOP)    -> TipEdge("top") < 0
    [] edge = Str(RIGHT)  -> window.innerWidth.v < TipEdge("right")
    [] edge = Str(BOTTOM) -> window.innerHeight.v < TipEdge("bottom")
    [] edge = Str(LEFT)   -> TipEdge("left") < 0

TipAbove == [Empty EXCEPT !.top = Px(-5), !.left = Px(0), !.width = Px(50), !.height = Px(10)]

(* C7: overDirs(tip) without a boundary element reports an edge exactly when *)
(* the amended tip passes that edge of the viewport strictly, each edge on    *)
(* its own, in the order top, right, bottom, left; a tip with top = -5        *)
(* otherwise inside a 1000x1000 viewport yields ['top'].                      *)
C7_OverDirsEdges ==
  /\ (call.op = "overDirs" /\ call.el = NULL) =>
       call.out = SelectSeq(Edges, Violated)
  /\ (call.op = "overDirs" /\ call.el = NULL /\ call.tip = TipAbove
        /\ window.innerWidth = Px(1000) /\ window.innerHeight = Px(1000)) =>
       call.out = <<Str(TOP)>>

C7_Witness ==
  /\ call.op = "overDirs"
  /\ call.el = NULL
  /\ call.tip = TipAbove
  /\ window.innerWidth = Px(1000)
  /\ window.innerHeight = Px(1000)
  /\ call.out = <<Str(TOP)>>

(* The pixels a pixel string holds, in half pixels *)
Pixels(x) == parseFloat(replace(x.s, PX, <<>>)).v

Pos == position(Origin)

Tip == position(Tooltip)

ExamplePage ==
  /\ Pos = [top |-> Px(100), left |-> Px(100), right |-> Px(150), bottom |-> Px(120),
            width |-> Px(50), height |-> Px(20)]
  /\ Tip.width = Px(30)
  /\ Tip.height = Px(10)

(* The offsets of the four directions: the tooltip's size, a top and a left, *)
(* the cross axis centred and the main axis 12 pixels from the anchor.       *)
PlacementFormulas ==
  (call.op = "placement" /\ IsDirection(call.place)) =>
    /\ call.out.right = UNDEFINED
    /\ call.out.bottom = UNDEFINED
    /\ call.out.width = Tip.width
    /\ call.out.height = Tip.height
    /\ typeof(call.out.top) = "string"
    /\ typeof(call.out.left) = "string"
    /\ call.place = Str(TOP) => Pixels(call.out.top) = Pos.top.v - Tip.height.v - 2 * 12
    /\ call.place = Str(BOTTOM) => Pixels(call.out.top) = Pos.top.v + Pos.height.v + 2 * 12
    /\ call.place = Str(RIGHT) => Pixels(call.out.left) = Pos.right.v + 2 * 12
    /\ call.place = Str(LEFT) => Pixels(call.out.left) = Pos.left.v - Tip.width.v - 2 * 12
    /\ call.place \in {Str(TOP), Str(BOTTOM)} =>
         2 * Pixels(call.out.left) = 2 * Pos.left.v + Pos.width.v - Tip.width.v
    /\ call.place \in {Str(LEFT), Str(RIGHT)} =>
         2 * Pixels(call.out.top) = 2 * Pos.top.v + Pos.height.v - Tip.height.v

ExampleRight ==
  (call.op = "placement" /\ ExamplePage /\ call.place = Str(RIGHT)) =>
    /\ call.out.left = Str(<<"1", "6", "2", "p", "x">>)
    /\ call.out.top = Str(<<"1", "0", "5", "p", "x">>)

(* C8, as stated: for each of the four directions placement returns the     *)
(* tooltip's width and height with a top and a left, the tooltip centred on  *)
(* the anchor along the cross axis and 12 pixels from it along the main      *)
(* axis; for the anchor {top:100, left:100, width:50, height:20} and a 30x10 *)
(* tooltip, 'top' gives left 105 and top 78, 'right' gives left 162 and top  *)
(* 105.                                                                      *)
C8_AsStated ==
  /\ PlacementFormulas
  /\ ExampleRight
  /\ (call.op = "placement" /\ ExamplePage /\ call.place = Str(TOP)) =>
       /\ call.out.left = Str(<<"1", "0", "5", "p", "x">>)
       /\ call.out.top = Str(<<"7", "8", "p", "x">>)

(* C8, amended: the same offsets, and for that anchor and tooltip 'top' gives *)
(* left 110 (100 + 25 - 15) and top 78, 'right' gives left 162 and top 105.   *)
C8_PlacementOffsets ==
  /\ PlacementFormulas
  /\ ExampleRight
  /\ (call.op = "placement" /\ ExamplePage /\ call.place = Str(TOP)) =>
       /\ call.out.left = Str(<<"1", "1", "0", "p", "x">>)
       /\ call.out.top = Str(<<"7", "8", "p", "x">>)

C8_Witness ==
  /\ call.op = "placement"
  /\ call.place = Str(TOP)
  /\ ExamplePage
  /\ call.out.left = Str(<<"1", "1", "0", "p", "x">>)
  /\ call.out.top = Str(<<"7", "8", "p", "x">>)

(* C9: adjust leaves the list the caller passes as it was *)
C9_PlaceUnchanged ==
  call.op = "adjust" => call.out.place = call.place

(* The number a given property holds: itself, or the pixels of its string *)
Given(prop) ==
  IF typeof(call.area[prop]) = "string" THEN Num(Pixels(call.area[prop])) ELSE call.area[prop]

Has(obj, prop) == obj[prop] # UNDEFINED

(* C10: amend completes a partial rectangle one way only: top and left are 0 *)
(* when absent; right is left + width only when right is absent and width is  *)
(* a number, bottom likewise from top + height; a right or bottom that is     *)
(* present is kept, width and height are never derived, and the argument is   *)
(* not modified.                                                              *)
C10_AmendCompletes ==
  call.op = "amend" =>
    LET data == call.out.data
    IN  /\ data.top = IF Has(call.area, "top") THEN Given("top") ELSE Num(0)
        /\ data.left = IF Has(call.area, "left") THEN Given("left") ELSE Num(0)
        /\ Has(call.area, "right") => data.right = Given("right")
        /\ Has(call.area, "bottom") => data.bottom = Given("bottom")
        /\ (~Has(call.area, "right") /\ Has(call.area, "width")) =>
             data.right.v = data.left.v + Given("width").v
        /\ (~Has(call.area, "bottom") /\ Has(call.area, "height")) =>
             data.bottom.v = data.top.v + Given("height").v
        /\ (~Has(call.area, "right") /\ ~Has(call.area, "width")) => ~Has(data, "right")
        /\ (~Has(call.area, "bottom") /\ ~Has(call.area, "height")) => ~Has(data, "bottom")
        /\ \A prop \in {"width", "height"} :
             IF Has(call.area, prop) THEN data[prop] = Given(prop) ELSE ~Has(data, prop)
        /\ call.out.area = call.area

C10_Witness ==
  /\ call.op = "amend"
  /\ call.area = [Empty EXCEPT !.left = Px(3), !.width = Px(5), !.top = Px(2), !.height = Px(7)]
  /\ call.out.data.right = Px(8)
  /\ call.out.data.bottom = Px(9)
====
